---------------------------- MODULE Spec2Model ----------------------------
(***************************************************************************)
(* m3bridge: a local SMTP gateway that forwards mail through Microsoft     *)
(* Graph.  The module models                                               *)
(*   - internal/auth: TokenResponse.IsExpired, TokenCacheManager and the   *)
(*     Authenticator's interactive PKCE acquisition (callback listener,    *)
(*     unbuffered authCode channel, 5 minute timeout);                     *)
(*   - internal/smtp: the per-connection Session and its Data handler.     *)
(* Time is counted in whole seconds since Go's zero time.Time, so that     *)
(* CachedAt = 0 is exactly CachedAt.IsZero().                              *)
(***************************************************************************)
EXTENDS Integers, Sequences, FiniteSets, TLC

VARIABLES
    \* ---- wall clock
    clock,          \* time.Now(), seconds
    ticks,          \* number of clock advances so far
    \* ---- TokenCacheManager
    file,           \* content of tcm.filePath
    \* ---- Authenticator fields
    authorityURL,   \* a.authorityURL
    codeVerifier,   \* a.codeVerifier
    codeChallenge,  \* a.codeChallenge
    server,         \* state of the http.Server a.server points to
    authCode,       \* a.authCode: the callback handlers blocked in "a.authCode <- code"
    \* ---- goroutines started by startCallbackServer that have not run yet
    lsPending,
    \* ---- the goroutine running GetAccessToken
    pc,             \* its position
    cachedToken,    \* LoadToken's *TokenResponse (Nil or <<record>>)
    loadErr,        \* LoadToken's error
    code,           \* the code received from a.authCode
    token,          \* acquireNewToken's *TokenResponse
    err,            \* acquireNewToken's error
    deadline,       \* when time.After(5 * time.Minute) may fire
    ret,            \* what GetAccessToken returned
    \* ---- observation of the run (not program state)
    hist,
    \* ---- SMTP sessions
    sessions,       \* per accepted connection: the Session (from, to, authenticated)
    reply,          \* the last session command: its input, result and graph calls
    \* ---- one evaluation of TokenResponse.IsExpired
    ex,
    \* ---- concurrent callers of the TokenCacheManager
    mu,             \* tcm.mu, the sync.RWMutex
    caller,         \* per goroutine: the TokenCacheManager method it is in
    cacheObs,       \* observation of the cache's history (not program state)
    \* ---- one evaluation of the MIME extractor's functions
    mime

vars == <<clock, ticks, file, authorityURL, codeVerifier, codeChallenge, server, authCode,
          lsPending, pc, cachedToken, loadErr, code, token, err, deadline, ret,
          hist, sessions, reply, ex, mu, caller, cacheObs, mime>>

authVars == <<clock, ticks, file, authorityURL, codeVerifier, codeChallenge, server, authCode,
              lsPending, pc, cachedToken, loadErr, code, token, err, deadline,
              ret, hist>>

smtpVars == <<sessions, reply>>

cacheVars == <<mu, caller, cacheObs>>

\* what the Authenticator's steps leave alone
notAuth == <<sessions, reply, ex, cacheVars, mime>>

-----------------------------------------------------------------------------
(* Bounds of the model *)

\* GetAccessToken calls made on the one Authenticator
MaxCalls == 2
\* requests the provider's redirect sends to /callback
MaxCallbacks == 2
\* clock advances
MaxTicks == 2
\* recipients one session accumulates (the listener's MaxRecipients is 50)
MaxRcpt == 2
\* the largest age of a record, in steps of 100 seconds, IsExpired is given
MaxAgeSteps == 36
\* calls made on the TokenCacheManager by its concurrent callers
MaxCacheCalls == 3
\* the length of the texts over QpBytes given to decodeQuotedPrintable
MaxQpLen == 3
\* the number of parts of the bodies given to extractMultipartBody
MaxParts == 2

-----------------------------------------------------------------------------
(* internal/auth/token.go *)

tokenBufferSecs == 300

\* a nil pointer, a nil error
Nil == <<>>

\* the zero time.Time
ZeroTime == 0

TokenResponse(at, tt, ei, rt, sc, ca) ==
    [AccessToken |-> at, TokenType |-> tt, ExpiresIn |-> ei,
     RefreshToken |-> rt, Scope |-> sc, CachedAt |-> ca]

\* time.Time.After: strictly later
After(t, u) == t > u

\* IsExpired with "not before" in place of After
IsExpiredAtOrAfter(tr, now) ==
    IF tr.CachedAt = ZeroTime
    THEN TRUE
    ELSE LET expirationTime == tr.CachedAt + tr.ExpiresIn
         IN  (now + tokenBufferSecs) >= expirationTime

\* TokenResponse.IsExpired, evaluated when time.Now() = now
IsExpired(tr, now) ==
    IF tr.CachedAt = ZeroTime
    THEN TRUE
    ELSE LET expirationTime == tr.CachedAt + tr.ExpiresIn
         IN  After(now + tokenBufferSecs, expirationTime)

\* The cache file: absent, bytes that are no JSON object, or a JSON object
\* with the fields of the struct tags.
FileMissing == [kind |-> "missing"]
FileGarbage == [kind |-> "garbage"]

\* encoding/json writes a Go string as a JSON string: bytes that are not
\* valid UTF-8 come out as U+FFFD.  "tok[FF]" stands for "tok" followed by the
\* byte 0xFF, "tok[U+FFFD]" for "tok" followed by the replacement character;
\* every other string of the model is valid UTF-8 and is written as it is.
JsonString(str) == IF str = "tok[FF]" THEN "tok[U+FFFD]" ELSE str

\* json.MarshalIndent(token, "", "  ")
Marshal(tr) ==
    [kind |-> "json",
     access_token |-> JsonString(tr.AccessToken),
     token_type |-> JsonString(tr.TokenType),
     expires_in |-> tr.ExpiresIn,
     refresh_token |-> JsonString(tr.RefreshToken),
     scope |-> JsonString(tr.Scope), cached_at |-> tr.CachedAt]

\* json.Unmarshal(data, &token) of a JSON object
Unmarshal(data) ==
    TokenResponse(data.access_token, data.token_type, data.expires_in,
                  data.refresh_token, data.scope, data.cached_at)

\* TokenCacheManager.LoadToken under the read lock: <<*TokenResponse, error>>
LoadToken(f, now) ==
    IF f.kind = "missing" THEN <<Nil, <<"read file">> >>
    ELSE IF f.kind = "garbage" THEN <<Nil, <<"json">> >>
    ELSE IF IsExpired(Unmarshal(f), now) THEN <<Nil, <<"token expired">> >>
    ELSE << <<Unmarshal(f)>>, Nil >>

\* SaveToken that leaves CachedAt as the caller set it
SaveTokenUnstamped(tr, f, now, writeOK) ==
    IF writeOK THEN <<tr, Marshal(tr), Nil>>
    ELSE <<tr, f, <<"write file">> >>

\* TokenCacheManager.SaveToken under the write lock; writeOK is whether
\* os.WriteFile succeeds.  <<token as stamped, file afterwards, error>>
SaveToken(tr, f, now, writeOK) ==
    LET stamped == [tr EXCEPT !.CachedAt = now]
    IN  IF writeOK THEN <<stamped, Marshal(stamped), Nil>>
        ELSE <<stamped, f, <<"write file">> >>

\* ClearCache that returns os.Remove's error also when the file is absent
ClearCacheFailsOnMissing(f, removeOK) ==
    IF f.kind = "missing" THEN <<f, <<"remove file">> >>
    ELSE IF removeOK THEN <<FileMissing, Nil>>
    ELSE <<f, <<"remove file">> >>

\* TokenCacheManager.ClearCache under the write lock; removeOK is whether
\* os.Remove succeeds on an existing file.  <<file afterwards, error>>
ClearCache(f, removeOK) ==
    IF f.kind = "missing" THEN <<f, Nil>>
    ELSE IF removeOK THEN <<FileMissing, Nil>>
    ELSE <<f, <<"remove file">> >>

-----------------------------------------------------------------------------
(* The Authenticator (src/unnamed/part_000, package auth) *)

\* fmt.Errorf("...: %w", err): an error is the chain of its messages
Wrap(msg, e) == <<msg>> \o e

ErrURL == "auth url error"
ErrServerStart == "callback server start error"
ErrExchange == "token exchange error"
ErrTimeout == "auth timeout"
ErrAcquire == "token acquisition error"

\* 5 * time.Minute, in seconds
callbackTimeoutSecs == 300

\* the amounts by which the clock is observed to advance
TickSteps == {300}

AuthorityURLs == {"https://login.example/common", "://bad"}

\* url.Parse of a.authorityURL + "/oauth2/v2.0/authorize"
UrlParses(u) == u # "://bad"

\* the values crypto/rand gives generatePKCE: one fresh verifier per call
Verifier(n) == <<"verifier", n>>

\* base64url(sha256(verifier)), an injective image of the verifier
Challenge(v) == <<"S256", v>>

\* the authorization codes a redirect can carry; "" is a redirect without code
Codes == {"codeA", "codeB"}

ExpiresIns == {300, 600}

\* the token endpoint's answers to the POST of exchangeCodeForToken
ExchangeResponses ==
    {[kind |-> k, access_token |-> "", expires_in |-> 0] :
         k \in {"post error", "status", "bad json"}}
    \cup {[kind |-> "ok", access_token |-> "tok1", expires_in |-> 300],
          [kind |-> "ok", access_token |-> "tok2", expires_in |-> 600]}

\* json.Unmarshal of a 200 response body into a TokenResponse: the provider
\* sends no cached_at, so CachedAt stays the zero time
TokenFromBody(r) ==
    TokenResponse(r.access_token, "Bearer", r.expires_in, "refresh", "Mail.Send",
                  ZeroTime)

\* exchangeCodeForToken(code) given the endpoint's answer: <<token, error>>
exchangeCodeForToken(r) ==
    IF r.kind = "post error" THEN <<Nil, <<"post error">> >>
    ELSE IF r.kind = "status" THEN <<Nil, <<"token request failed">> >>
    ELSE IF r.kind = "bad json" THEN <<Nil, <<"json parse error">> >>
    ELSE << <<TokenFromBody(r)>>, Nil >>

\* the cache files a run can start with
InitialFiles ==
    {FileMissing, FileGarbage}
    \cup {Marshal(TokenResponse("tok0", "Bearer", e, "refresh", "Mail.Send", c)) :
              e \in ExpiresIns, c \in {ZeroTime, 1000}}

NoRet == [token |-> "", err |-> Nil, set |-> FALSE]

HistInit ==
    [calls |-> 0, attempt |-> 0, exchanges |-> 0, saves |-> 0, pkce |-> 0,
     started |-> 0, requests |-> 0, urlShown |-> FALSE, redirectErrors |-> 0,
     listened |-> FALSE, bindFailed |-> FALSE, outcome |-> "none",
     codeFrom |-> 0, received |-> 0, used |-> "", saveFailed |-> FALSE,
     timedOut |-> FALSE,
     entry |-> [file |-> FileMissing, attempt |-> 0, exchanges |-> 0,
                saves |-> 0, pkce |-> 0, started |-> 0]]

AuthInit ==
    /\ clock = 1000
    /\ ticks = 0
    /\ file \in InitialFiles
    /\ authorityURL \in AuthorityURLs
    /\ codeVerifier = Nil
    /\ codeChallenge = Nil
    /\ server = "nil"
    /\ authCode = {}
    /\ lsPending = 0
    /\ pc = "idle"
    /\ cachedToken = Nil
    /\ loadErr = Nil
    /\ code = ""
    /\ token = Nil
    /\ err = Nil
    /\ deadline = 0
    /\ ret = NoRet
    /\ hist = HistInit

\* time passes
Tick ==
    /\ ticks < MaxTicks
    /\ \E d \in TickSteps : clock' = clock + d
    /\ ticks' = ticks + 1
    /\ UNCHANGED <<notAuth, file, authorityURL, codeVerifier, codeChallenge, server,
                   authCode, lsPending, pc, cachedToken, loadErr, code, token,
                   err, deadline, ret, hist>>

\* GetAccessToken is called: a.tokenCache.LoadToken()
GetAccessToken ==
    /\ pc \in {"idle", "done"}
    /\ hist.calls < MaxCalls
    /\ LET r == LoadToken(file, clock)
       IN  /\ cachedToken' = r[1]
           /\ loadErr' = r[2]
    /\ pc' = "loaded"
    /\ code' = ""
    /\ token' = Nil
    /\ err' = Nil
    /\ ret' = NoRet
    /\ hist' = [hist EXCEPT !.calls = @ + 1, !.outcome = "none",
                            !.saveFailed = FALSE, !.timedOut = FALSE,
                            !.entry = [file |-> file, attempt |-> hist.attempt,
                                       exchanges |-> hist.exchanges,
                                       saves |-> hist.saves, pkce |-> hist.pkce,
                                       started |-> hist.started]]
    /\ UNCHANGED <<notAuth, clock, ticks, file, authorityURL, codeVerifier, codeChallenge,
                   server, authCode, lsPending, deadline>>

\* UseCached that never accepts the loaded token
UseCachedNever(tok, e, now) == FALSE

\* err == nil && cachedToken != nil && !cachedToken.IsExpired()
UseCached(tok, e, now) ==
    /\ e = Nil
    /\ tok # Nil
    /\ ~IsExpired(tok[1], now)

\* CheckCached that returns LoadToken's error to the caller
CheckCachedSurfacesError ==
    /\ pc = "loaded"
    /\ \/ /\ UseCached(cachedToken, loadErr, clock)
          /\ ret' = [token |-> cachedToken[1].AccessToken, err |-> Nil, set |-> TRUE]
          /\ pc' = "done"
       \/ /\ ~UseCached(cachedToken, loadErr, clock)
          /\ loadErr # Nil
          /\ ret' = [token |-> "", err |-> loadErr, set |-> TRUE]
          /\ pc' = "done"
       \/ /\ ~UseCached(cachedToken, loadErr, clock)
          /\ loadErr = Nil
          /\ ret' = ret
          /\ pc' = "acquire"
    /\ UNCHANGED <<notAuth, clock, ticks, file, authorityURL, codeVerifier,
                   codeChallenge, server, authCode, lsPending, cachedToken,
                   loadErr, code, token, err, deadline, hist>>

\* GetAccessToken, the test of the loaded token: return it or go on to acquire
CheckCached ==
    /\ pc = "loaded"
    /\ \/ /\ UseCached(cachedToken, loadErr, clock)
          /\ ret' = [token |-> cachedToken[1].AccessToken, err |-> Nil, set |-> TRUE]
          /\ pc' = "done"
       \/ /\ ~UseCached(cachedToken, loadErr, clock)
          /\ ret' = ret
          /\ pc' = "acquire"
    /\ UNCHANGED <<notAuth, clock, ticks, file, authorityURL, codeVerifier, codeChallenge,
                   server, authCode, lsPending, cachedToken, loadErr, code, token,
                   err, deadline, hist>>

\* acquireNewToken begins: a.generatePKCE()
generatePKCE ==
    /\ pc = "acquire"
    /\ codeVerifier' = Verifier(hist.pkce + 1)
    /\ codeChallenge' = Challenge(Verifier(hist.pkce + 1))
    /\ pc' = "pkce"
    /\ hist' = [hist EXCEPT !.attempt = @ + 1, !.pkce = @ + 1, !.urlShown = FALSE,
                            !.redirectErrors = 0, !.listened = FALSE,
                            !.bindFailed = FALSE, !.codeFrom = 0,
                            !.received = 0, !.used = ""]
    /\ UNCHANGED <<notAuth, clock, ticks, file, authorityURL, server, authCode, lsPending,
                   cachedToken, loadErr, code, token, err, deadline, ret>>

\* a.buildAuthorizationURL(), then the URL is printed for the operator
buildAuthorizationURL ==
    /\ pc = "pkce"
    /\ \/ /\ ~UrlParses(authorityURL)
          /\ err' = Wrap(ErrURL, <<"parse">>)
          /\ pc' = "acquired"
          /\ hist' = [hist EXCEPT !.outcome = "url error"]
       \/ /\ UrlParses(authorityURL)
          /\ err' = err
          /\ pc' = "url shown"
          /\ hist' = [hist EXCEPT !.urlShown = TRUE]
    /\ UNCHANGED <<notAuth, clock, ticks, file, authorityURL, codeVerifier, codeChallenge,
                   server, authCode, lsPending, cachedToken, loadErr, code, token,
                   deadline, ret>>

\* what startCallbackServer returns: nil, whatever ListenAndServe will do
startCallbackServerErr == Nil

\* a.startCallbackServer(): a new http.Server, ListenAndServe left to a
\* goroutine; then defer a.stopCallbackServer() and the select is entered
startCallbackServer ==
    /\ pc = "url shown"
    /\ server' = "created"
    /\ lsPending' = lsPending + 1
    /\ IF startCallbackServerErr # Nil
       THEN /\ err' = Wrap(ErrServerStart, startCallbackServerErr)
            /\ pc' = "acquired"
            /\ deadline' = deadline
            /\ hist' = [hist EXCEPT !.started = @ + 1, !.outcome = "start error"]
       ELSE /\ err' = err
            /\ pc' = "select"
            /\ deadline' = clock + callbackTimeoutSecs
            /\ hist' = [hist EXCEPT !.started = @ + 1]
    /\ UNCHANGED <<notAuth, clock, ticks, file, authorityURL, codeVerifier, codeChallenge,
                   authCode, cachedToken, loadErr, code, token, ret>>

\* the goroutine of startCallbackServer runs a.server.ListenAndServe(): it
\* reads a.server when it runs.  After Shutdown the call returns
\* ErrServerClosed; a server that listens already keeps the port, and the
\* second bind fails; otherwise the bind succeeds or fails (port in use).
ListenAndServe ==
    /\ lsPending > 0
    /\ lsPending' = lsPending - 1
    /\ \/ /\ server \in {"created", "failed"}
          /\ server' = "listening"
          /\ hist' = [hist EXCEPT !.listened = TRUE]
       \/ /\ server \in {"created", "failed"}
          /\ server' = "failed"
          /\ hist' = [hist EXCEPT !.bindFailed = TRUE]
       \/ /\ server \in {"listening", "closed"}
          /\ server' = server
          /\ hist' = hist
    /\ UNCHANGED <<notAuth, clock, ticks, file, authorityURL, codeVerifier, codeChallenge,
                   authCode, pc, cachedToken, loadErr, code, token, err,
                   deadline, ret>>

\* a request reaches /callback on the listening server; c is its "code"
\* query parameter.  Without a code the handler logs the provider's error,
\* answers 400 and returns; with one it blocks in "a.authCode <- code".
callbackHandler(c) ==
    /\ server = "listening"
    /\ hist.requests < MaxCallbacks
    /\ IF c = ""
       THEN /\ authCode' = authCode
            /\ hist' = [hist EXCEPT !.requests = @ + 1, !.redirectErrors = @ + 1]
       ELSE /\ authCode' = authCode \cup
                  {[id |-> hist.requests + 1, srv |-> hist.attempt, code |-> c]}
            /\ hist' = [hist EXCEPT !.requests = @ + 1]
    /\ UNCHANGED <<notAuth, clock, ticks, file, authorityURL, codeVerifier, codeChallenge,
                   server, lsPending, pc, cachedToken, loadErr, code, token, err,
                   deadline, ret>>

\* ReceiveCode in a loop: a further code is received while the first awaits
\* its exchange
ReceiveCodeRepeats ==
    /\ pc \in {"select", "exchange"}
    /\ \E h \in authCode :
          /\ code' = h.code
          /\ authCode' = authCode \ {h}
          /\ hist' = [hist EXCEPT !.codeFrom = h.srv, !.received = @ + 1]
    /\ pc' = "exchange"
    /\ UNCHANGED <<notAuth, clock, ticks, file, authorityURL, codeVerifier,
                   codeChallenge, server, lsPending, cachedToken, loadErr,
                   token, err, deadline, ret>>

\* select, case code := <-a.authCode: the rendezvous with one blocked
\* handler, which then writes its response and returns
ReceiveCode ==
    /\ pc = "select"
    /\ \E h \in authCode :
          /\ code' = h.code
          /\ authCode' = authCode \ {h}
          /\ hist' = [hist EXCEPT !.codeFrom = h.srv, !.received = @ + 1]
    /\ pc' = "exchange"
    /\ UNCHANGED <<notAuth, clock, ticks, file, authorityURL, codeVerifier, codeChallenge,
                   server, lsPending, cachedToken, loadErr, token, err, deadline,
                   ret>>

\* Timeout that goes on to the exchange with the empty code
TimeoutFallsThrough ==
    /\ pc = "select"
    /\ clock >= deadline
    /\ err' = <<ErrTimeout>>
    /\ token' = Nil
    /\ pc' = "exchange"
    /\ hist' = [hist EXCEPT !.outcome = "timeout", !.timedOut = TRUE]
    /\ UNCHANGED <<notAuth, clock, ticks, file, authorityURL, codeVerifier,
                   codeChallenge, server, authCode, lsPending, cachedToken,
                   loadErr, code, deadline, ret>>

\* select, case <-time.After(5 * time.Minute)
Timeout ==
    /\ pc = "select"
    /\ clock >= deadline
    /\ err' = <<ErrTimeout>>
    /\ token' = Nil
    /\ pc' = "stopping"
    /\ hist' = [hist EXCEPT !.outcome = "timeout", !.timedOut = TRUE]
    /\ UNCHANGED <<notAuth, clock, ticks, file, authorityURL, codeVerifier, codeChallenge,
                   server, authCode, lsPending, cachedToken, loadErr, code,
                   deadline, ret>>

\* a.exchangeCodeForToken(code): one POST to the token endpoint
ExchangeCodeForToken ==
    /\ pc = "exchange"
    /\ \E r \in ExchangeResponses :
          LET res == exchangeCodeForToken(r)
          IN  IF res[2] # Nil
              THEN /\ token' = Nil
                   /\ err' = Wrap(ErrExchange, res[2])
                   /\ hist' = [hist EXCEPT !.exchanges = @ + 1, !.used = code,
                                           !.outcome = "exchange failed"]
              ELSE /\ token' = res[1]
                   /\ err' = Nil
                   /\ hist' = [hist EXCEPT !.exchanges = @ + 1, !.used = code,
                                           !.outcome = "exchanged"]
    /\ pc' = "stopping"
    /\ UNCHANGED <<notAuth, clock, ticks, file, authorityURL, codeVerifier, codeChallenge,
                   server, authCode, lsPending, cachedToken, loadErr, code,
                   deadline, ret>>

\* Shutdown that leaves the server as it is
ShutdownNothing(srv) == srv

\* a.server.Shutdown(ctx): the listener is closed; handlers still blocked on
\* the channel are not interrupted when the 5 second grace period ends
Shutdown(srv) == IF srv = "nil" THEN srv ELSE "closed"

\* the deferred a.stopCallbackServer(), then acquireNewToken returns
stopCallbackServer ==
    /\ pc = "stopping"
    /\ server' = Shutdown(server)
    /\ pc' = "acquired"
    /\ UNCHANGED <<notAuth, clock, ticks, file, authorityURL, codeVerifier, codeChallenge,
                   authCode, lsPending, cachedToken, loadErr, code, token, err,
                   deadline, ret, hist>>

\* Finish that returns SaveToken's error instead of logging it
FinishFailsOnSaveError ==
    /\ pc = "acquired"
    /\ IF err # Nil
       THEN /\ ret' = [token |-> "", err |-> Wrap(ErrAcquire, err), set |-> TRUE]
            /\ UNCHANGED <<file, token, hist>>
       ELSE \E writeOK \in BOOLEAN :
               LET s == SaveToken(token[1], file, clock, writeOK)
               IN  /\ token' = <<s[1]>>
                   /\ file' = s[2]
                   /\ hist' = [hist EXCEPT !.saves = @ + 1,
                                           !.saveFailed = (s[3] # Nil)]
                   /\ ret' = IF s[3] # Nil
                             THEN [token |-> "", err |-> s[3], set |-> TRUE]
                             ELSE [token |-> s[1].AccessToken, err |-> Nil,
                                   set |-> TRUE]
    /\ pc' = "done"
    /\ UNCHANGED <<notAuth, clock, ticks, authorityURL, codeVerifier,
                   codeChallenge, server, authCode, lsPending, cachedToken,
                   loadErr, code, err, deadline>>

\* GetAccessToken after acquireNewToken returned: the error is wrapped and
\* returned, or the token is saved (a failure is only logged) and returned
Finish ==
    /\ pc = "acquired"
    /\ IF err # Nil
       THEN /\ ret' = [token |-> "", err |-> Wrap(ErrAcquire, err), set |-> TRUE]
            /\ UNCHANGED <<notAuth, file, token, hist>>
       ELSE \E writeOK \in BOOLEAN :
               LET s == SaveToken(token[1], file, clock, writeOK)
               IN  /\ token' = <<s[1]>>
                   /\ file' = s[2]
                   /\ hist' = [hist EXCEPT !.saves = @ + 1,
                                           !.saveFailed = (s[3] # Nil)]
                   /\ ret' = [token |-> s[1].AccessToken, err |-> Nil,
                              set |-> TRUE]
    /\ pc' = "done"
    /\ UNCHANGED <<notAuth, clock, ticks, authorityURL, codeVerifier, codeChallenge,
                   server, authCode, lsPending, cachedToken, loadErr, code, err,
                   deadline>>

AuthNext ==
    \/ Tick
    \/ GetAccessToken
    \/ CheckCached
    \/ generatePKCE
    \/ buildAuthorizationURL
    \/ startCallbackServer
    \/ ListenAndServe
    \/ \E c \in Codes \cup {""} : callbackHandler(c)
    \/ ReceiveCode
    \/ Timeout
    \/ ExchangeCodeForToken
    \/ stopCallbackServer
    \/ Finish

-----------------------------------------------------------------------------
(* internal/smtp/handler.go: the MIME extractor.  Text is a sequence of     *)
(* bytes (0..255).                                                          *)

CR == 13
LF == 10
EQ == 61

\* the value of a hexadecimal digit, -1 for any other byte
HexVal(b) ==
    IF b >= 48 /\ b <= 57 THEN b - 48
    ELSE IF b >= 65 /\ b <= 70 THEN b - 55
    ELSE IF b >= 97 /\ b <= 102 THEN b - 87
    ELSE -1

\* fmt.Sscanf(line[i+1:i+3], "%02X", &b) with b zero before: leading blanks are
\* skipped, then at most two hexadecimal digits are read; when none is found
\* the scan fails and b keeps 0
Sscanf02X(c1, c2) ==
    IF HexVal(c1) >= 0
    THEN IF HexVal(c2) >= 0 THEN 16 * HexVal(c1) + HexVal(c2) ELSE HexVal(c1)
    ELSE IF c1 \in {32, 9, 11, 12, CR} /\ HexVal(c2) >= 0 THEN HexVal(c2)
    ELSE 0

\* strings.TrimRight(line, "\r\n")
RECURSIVE TrimRightCRLF(_)
TrimRightCRLF(line) ==
    IF line # <<>> /\ line[Len(line)] \in {CR, LF}
    THEN TrimRightCRLF(SubSeq(line, 1, Len(line) - 1))
    ELSE line

\* the loop over one line: "=XX" is replaced when two more bytes follow the
\* "=" (i+2 < len(line) with i counted from 0, i + 2 <= Len(line) here)
RECURSIVE DecodeLine(_, _)
DecodeLine(line, i) ==
    IF i > Len(line) THEN <<>>
    ELSE IF line[i] = EQ /\ i + 2 <= Len(line)
         THEN <<Sscanf02X(line[i + 1], line[i + 2])>> \o DecodeLine(line, i + 3)
         ELSE <<line[i]>> \o DecodeLine(line, i + 1)

\* one pass of the outer loop on what reader.ReadString('\n') returned
DecodeChunk(chunk) ==
    LET trimmed == TrimRightCRLF(chunk)
        line == IF trimmed # <<>> /\ trimmed[Len(trimmed)] = EQ
                THEN SubSeq(trimmed, 1, Len(trimmed) - 1)
                ELSE trimmed \o <<LF>>
    IN  DecodeLine(line, 1)

\* the index of the first LF of s at or after i, 0 when there is none
RECURSIVE IndexLF(_, _)
IndexLF(s, i) ==
    IF i > Len(s) THEN 0
    ELSE IF s[i] = LF THEN i
    ELSE IndexLF(s, i + 1)

\* decodeQuotedPrintable: ReadString('\n') until io.EOF; the chunk that comes
\* with io.EOF (empty when s ends in LF) is decoded like the others
RECURSIVE decodeQuotedPrintable(_)
decodeQuotedPrintable(s) ==
    LET n == IndexLF(s, 1)
    IN  IF n = 0 THEN DecodeChunk(s)
        ELSE DecodeChunk(SubSeq(s, 1, n))
                 \o decodeQuotedPrintable(SubSeq(s, n + 1, Len(s)))

\* base64.StdEncoding.DecodeString on the encoded texts of the model:
\* <<decoded, ok>>
Base64Decode(t) ==
    IF t = <<83, 71, 107, 61>> THEN << <<72, 105>>, TRUE >>      \* "SGk=" is "Hi"
    ELSE <<t, FALSE>>

\* strings.EqualFold(encoding, name) on the header values of the model
EqualFold(encoding, name) ==
    \/ encoding = name
    \/ name = "base64" /\ encoding = "BASE64"
    \/ name = "quoted-printable" /\ encoding = "Quoted-Printable"

\* the Content-Transfer-Encoding handling shared by both extractors
DecodeTransfer(encoding, text) ==
    IF EqualFold(encoding, "base64")
    THEN IF Base64Decode(text)[2] THEN Base64Decode(text)[1] ELSE text
    ELSE IF EqualFold(encoding, "quoted-printable")
         THEN decodeQuotedPrintable(text)
         ELSE text

\* mime.ParseMediaType on the Content-Type values of the model:
\* <<media type, ok>>
ParseMediaType(h) ==
    IF h = "text/plain; charset=utf-8" THEN <<"text/plain", TRUE>>
    ELSE IF h = "TEXT/HTML" THEN <<"text/html", TRUE>>
    ELSE IF h = "multipart/mixed; boundary=b" THEN <<"multipart/mixed", TRUE>>
    ELSE IF h = "multipart/alternative; boundary=c"
         THEN <<"multipart/alternative", TRUE>>
    ELSE IF h = "image/png" THEN <<"image/png", TRUE>>
    ELSE <<"", FALSE>>

\* strings.HasPrefix(mediaType, prefix) on the media types of the model
HasPrefix(mediaType, prefix) ==
    \/ mediaType = prefix
    \/ prefix = "multipart/"
         /\ mediaType \in {"multipart/mixed", "multipart/alternative"}

\* multipart.Reader.NextPart hides a quoted-printable transfer encoding and
\* decodes the part itself; qpDecoded is the text the library's decoder gives
PartEncoding(p) ==
    IF EqualFold(p.encoding, "quoted-printable") THEN "" ELSE p.encoding

PartBytes(p) ==
    IF EqualFold(p.encoding, "quoted-printable") THEN p.qpDecoded ELSE p.raw

\* the loop of extractMultipartBody over the parts from the i-th on, with
\* textPart and htmlPart as assigned so far: <<textPart, htmlPart>>
RECURSIVE PartsLoop(_, _, _, _)
PartsLoop(parts, i, textPart, htmlPart) ==
    IF i > Len(parts) THEN <<textPart, htmlPart>>
    ELSE LET part == parts[i]
             mediaType == ParseMediaType(part.contentType)[1]
             partText == DecodeTransfer(PartEncoding(part), PartBytes(part))
         IN  IF ~part.readOK THEN PartsLoop(parts, i + 1, textPart, htmlPart)
             ELSE IF HasPrefix(mediaType, "text/plain")
                  THEN PartsLoop(parts, i + 1, partText, htmlPart)
             ELSE IF HasPrefix(mediaType, "text/html")
                  THEN PartsLoop(parts, i + 1, textPart, partText)
             ELSE PartsLoop(parts, i + 1, textPart, htmlPart)

ErrNoBody == "no body found"

\* extractMultipartBody: <<body, isHTML, error>>; m.partsErr is NextPart
\* failing with an error other than io.EOF
extractMultipartBody(m) ==
    LET r == PartsLoop(m.parts, 1, <<>>, <<>>)
    IN  IF m.partsErr THEN << <<>>, FALSE, <<"multipart">> >>
        ELSE IF r[2] # <<>> THEN <<r[2], TRUE, Nil>>
        ELSE IF r[1] # <<>> THEN <<r[1], FALSE, Nil>>
        ELSE << <<>>, FALSE, <<ErrNoBody>> >>

\* extractBody: <<body, isHTML, error>>; m.bodyReadOK is io.ReadAll(msg.Body)
extractBody(m) ==
    LET mt == ParseMediaType(m.contentType)
    IN  IF ~mt[2]
        THEN IF m.bodyReadOK THEN <<m.body, FALSE, Nil>>
             ELSE << <<>>, FALSE, <<"read">> >>
        ELSE IF HasPrefix(mt[1], "multipart/") THEN extractMultipartBody(m)
        ELSE IF ~m.bodyReadOK THEN << <<>>, FALSE, <<"read">> >>
        ELSE <<DecodeTransfer(m.encoding, m.body), HasPrefix(mt[1], "text/html"),
               Nil>>

\* mime.WordDecoder.DecodeHeader on the Subject values of the model; the raw
\* header is kept when decoding fails
decodeHeader(header) ==
    IF header = "=?utf-8?q?Hi?=" THEN "Hi"
    ELSE header

\* mail.ParseAddressList on the Cc values of the model: <<addresses, ok>>
ParseAddressList(h) ==
    IF h = "c@x" THEN << <<"c@x">>, TRUE >>
    ELSE IF h = "C <c@x>, d@x" THEN << <<"c@x", "d@x">>, TRUE >>
    ELSE << <<>>, FALSE >>

\* the Cc addresses Data collects
ccAddresses(m) ==
    IF m.cc # "" /\ ParseAddressList(m.cc)[2] THEN ParseAddressList(m.cc)[1]
    ELSE <<>>

-----------------------------------------------------------------------------
(* internal/smtp/handler.go: Backend and Session.  go-smtp calls the session *)
(* methods on behalf of the client; the methods are modelled as the Session  *)
(* interface offers them, callable in any order.                             *)

\* the connections the listener serves at the same time
Conns == {1, 2}

\* Backend.username, Backend.password (config.Username, config.Password)
backendUsername == "user"
backendPassword == "secret"

Addresses == {"a@x", "b@x"}

\* the attempts a client makes with AUTH: the configured credentials, each
\* of them wrong in turn, both wrong, and another mechanism
AuthAttempts ==
    {<<"PLAIN", "user", "secret">>, <<"PLAIN", "user", "guess">>,
     <<"PLAIN", "eve", "secret">>, <<"PLAIN", "eve", "guess">>,
     <<"LOGIN", "user", "secret">>}

\* the reverse paths a client gives with MAIL FROM
Senders == {"s@x"}

\* "Hi"
TextHi == <<72, 105>>
\* "<b>"
TextB == <<60, 98, 62>>

Part(ct, enc, raw, qp, ok) ==
    [contentType |-> ct, encoding |-> enc, raw |-> raw, qpDecoded |-> qp,
     readOK |-> ok]

Message(ok, subj, cc, ct, enc, body, parts) ==
    [readOK |-> ok, subject |-> subj, cc |-> cc, contentType |-> ct,
     encoding |-> enc, body |-> body, bodyReadOK |-> TRUE, parts |-> parts,
     partsErr |-> FALSE]

\* the messages a client submits in the model
MessageList ==
    << \* no header/body separation: mail.ReadMessage fails
      Message(FALSE, "", "", "", "", <<>>, <<>>),
      \* no Content-Type, no Cc
      Message(TRUE, "Hi", "", "", "", TextHi, <<>>),
      \* single part text/html, base64, one Cc address
      Message(TRUE, "=?utf-8?q?Hi?=", "c@x", "TEXT/HTML", "base64",
              <<83, 71, 107, 61>>, <<>>),
      \* multipart with a plain and an html part, two Cc addresses
      Message(TRUE, "Hi", "C <c@x>, d@x", "multipart/alternative; boundary=c",
              "", <<>>,
              <<Part("text/plain; charset=utf-8", "", TextHi, TextHi, TRUE),
                Part("TEXT/HTML", "", TextB, TextB, TRUE)>>),
      \* multipart without a text part, no Cc: extraction fails
      Message(TRUE, "Hi", "", "multipart/mixed; boundary=b", "", <<>>,
              <<Part("image/png", "base64", <<83, 71, 107, 61>>, <<>>, TRUE)>>),
      \* multipart without a text part, a Cc header that does not parse
      Message(TRUE, "Hi", "bad", "multipart/mixed; boundary=b", "", <<>>,
              <<Part("image/png", "", TextHi, TextHi, TRUE)>>),
      \* multipart cut short after its plain part (NextPart fails), one Cc
      \* address
      [Message(TRUE, "Hi", "c@x", "multipart/mixed; boundary=b", "", <<>>,
               <<Part("text/plain; charset=utf-8", "", TextHi, TextHi, TRUE)>>)
          EXCEPT !.partsErr = TRUE] >>

Messages == DOMAIN MessageList

\* extractBody of each message of the model
Extracted == [i \in Messages |-> extractBody(MessageList[i])]

\* "（本文を抽出できませんでした）", the body sent when extraction fails
PlaceholderBody == <<40, 110, 111, 32, 98, 111, 100, 121, 41>>

ErrUnsupportedMech == "unsupported auth mechanism"
ErrInvalidCredentials == "invalid credentials"
ErrParse == "message parse error"
ErrNoRecipients == "no recipients"
ErrSend == "send failed"

\* Backend.NewSession
NewSessionValue == [from |-> "", to |-> <<>>, authenticated |-> FALSE]

\* arg: the arguments of Auth and Rcpt, and for Data the result of the graph
\* call when one was made
NoReply ==
    [conn |-> 0, cmd |-> "", before |-> NewSessionValue, err |-> Nil,
     calls |-> <<>>, msg |-> 0, arg |-> <<>>]

SmtpIdle ==
    /\ sessions = <<>>
    /\ reply = NoReply

\* what the session's commands leave alone
notSmtp == <<authVars, ex, cacheVars, mime>>

\* the reply of command cmd on connection c
Reply(c, cmd, e, calls, m) ==
    [conn |-> c, cmd |-> cmd, before |-> sessions[c], err |-> e,
     calls |-> calls, msg |-> m, arg |-> <<>>]

\* a connection is accepted: Backend.NewSession
NewSession(c) ==
    /\ c \notin DOMAIN sessions
    /\ sessions' = [d \in DOMAIN sessions \cup {c} |->
                       IF d = c THEN NewSessionValue ELSE sessions[d]]
    /\ reply' = [NoReply EXCEPT !.conn = c, !.cmd = "NewSession"]
    /\ UNCHANGED notSmtp

\* the callback with "and" in place of "or"
PlainCheckEitherMatches(username, password) ==
    IF username # backendUsername /\ password # backendPassword
    THEN <<ErrInvalidCredentials>>
    ELSE Nil

\* the callback given to sasl.NewPlainServer
PlainCheck(username, password) ==
    IF username # backendUsername \/ password # backendPassword
    THEN <<ErrInvalidCredentials>>
    ELSE Nil

\* Session.Auth(mech) and, for PLAIN, the exchange that calls the callback
\* with the client's username and password
Auth(c, mech, username, password) ==
    /\ c \in DOMAIN sessions
    /\ LET e == IF mech # "PLAIN" THEN <<ErrUnsupportedMech>>
                ELSE PlainCheck(username, password)
       IN  /\ sessions' = IF e = Nil
                          THEN [sessions EXCEPT ![c].authenticated = TRUE]
                          ELSE sessions
           /\ reply' = [Reply(c, "Auth", e, <<>>, 0)
                           EXCEPT !.arg = <<mech, username, password>>]
    /\ UNCHANGED notSmtp

\* Session.Mail
Mail(c, from) ==
    /\ c \in DOMAIN sessions
    /\ sessions' = [sessions EXCEPT ![c].from = from]
    /\ reply' = Reply(c, "Mail", Nil, <<>>, 0)
    /\ UNCHANGED notSmtp

\* Session.Rcpt
Rcpt(c, to) ==
    /\ c \in DOMAIN sessions
    /\ Len(sessions[c].to) < MaxRcpt
    /\ sessions' = [sessions EXCEPT ![c].to = Append(@, to)]
    /\ reply' = [Reply(c, "Rcpt", Nil, <<>>, 0) EXCEPT !.arg = <<to>>]
    /\ UNCHANGED notSmtp

\* Reset that starts the session over, authentication included
ResetForgetsAuth(c) ==
    /\ c \in DOMAIN sessions
    /\ sessions' = [sessions EXCEPT ![c] = NewSessionValue]
    /\ reply' = Reply(c, "Reset", Nil, <<>>, 0)
    /\ UNCHANGED notSmtp

\* Session.Reset
Reset(c) ==
    /\ c \in DOMAIN sessions
    /\ sessions' = [sessions EXCEPT ![c].from = "", ![c].to = <<>>]
    /\ reply' = Reply(c, "Reset", Nil, <<>>, 0)
    /\ UNCHANGED notSmtp

\* Session.Logout, after which go-smtp drops the session
Logout(c) ==
    /\ c \in DOMAIN sessions
    /\ sessions' = [d \in DOMAIN sessions \ {c} |-> sessions[d]]
    /\ reply' = Reply(c, "Logout", Nil, <<>>, 0)
    /\ UNCHANGED notSmtp

\* GraphCalls whose multi-recipient call gets the first recipient only
GraphCallsFirstOfMany(s, i) ==
    LET m == MessageList[i]
        subject == decodeHeader(m.subject)
        cc == ccAddresses(m)
        eb == Extracted[i]
        body == IF eb[3] # Nil THEN PlaceholderBody ELSE eb[1]
        isHTML == IF eb[3] # Nil THEN FALSE ELSE eb[2]
    IN  IF Len(cc) > 0
        THEN <<[fn |-> "SendMailWithMultipleRecipients",
                to |-> IF s.to = <<>> THEN <<>> ELSE <<s.to[1]>>, cc |-> cc,
                subject |-> subject, body |-> body, isHTML |-> isHTML]>>
        ELSE IF Len(s.to) = 0 THEN <<>>
        ELSE <<[fn |-> "SendMail", to |-> <<s.to[1]>>, cc |-> <<>>,
                subject |-> subject, body |-> body, isHTML |-> isHTML]>>

\* GraphCalls whose single-recipient call gets the last recipient
GraphCallsLastRecipient(s, i) ==
    LET m == MessageList[i]
        subject == decodeHeader(m.subject)
        cc == ccAddresses(m)
        eb == Extracted[i]
        body == IF eb[3] # Nil THEN PlaceholderBody ELSE eb[1]
        isHTML == IF eb[3] # Nil THEN FALSE ELSE eb[2]
    IN  IF Len(cc) > 0
        THEN <<[fn |-> "SendMailWithMultipleRecipients", to |-> s.to, cc |-> cc,
                subject |-> subject, body |-> body, isHTML |-> isHTML]>>
        ELSE IF Len(s.to) = 0 THEN <<>>
        ELSE <<[fn |-> "SendMail", to |-> <<s.to[Len(s.to)]>>, cc |-> <<>>,
                subject |-> subject, body |-> body, isHTML |-> isHTML]>>

\* GraphCalls that makes no call when the extraction failed
GraphCallsNoneOnExtractError(s, i) ==
    LET m == MessageList[i]
        subject == decodeHeader(m.subject)
        cc == ccAddresses(m)
        eb == Extracted[i]
    IN  IF eb[3] # Nil THEN <<>>
        ELSE IF Len(cc) > 0
        THEN <<[fn |-> "SendMailWithMultipleRecipients", to |-> s.to, cc |-> cc,
                subject |-> subject, body |-> eb[1], isHTML |-> eb[2]]>>
        ELSE IF Len(s.to) = 0 THEN <<>>
        ELSE <<[fn |-> "SendMail", to |-> <<s.to[1]>>, cc |-> <<>>,
                subject |-> subject, body |-> eb[1], isHTML |-> eb[2]]>>

\* GraphCalls that copies the declared sender on the message
GraphCallsCopySender(s, i) ==
    LET m == MessageList[i]
        subject == decodeHeader(m.subject)
        cc == ccAddresses(m)
        eb == Extracted[i]
        body == IF eb[3] # Nil THEN PlaceholderBody ELSE eb[1]
        isHTML == IF eb[3] # Nil THEN FALSE ELSE eb[2]
        copy == IF s.from = "" THEN <<>> ELSE <<s.from>>
    IN  IF Len(cc) > 0
        THEN <<[fn |-> "SendMailWithMultipleRecipients", to |-> s.to,
                cc |-> cc \o copy,
                subject |-> subject, body |-> body, isHTML |-> isHTML]>>
        ELSE IF Len(s.to) = 0 THEN <<>>
        ELSE <<[fn |-> "SendMail", to |-> <<s.to[1]>>, cc |-> copy,
                subject |-> subject, body |-> body, isHTML |-> isHTML]>>

\* the call Data makes on the graph client for session s and the i-th
\* message, as a sequence of at most one call; none when there is no Cc and
\* no recipient
GraphCalls(s, i) ==
    LET m == MessageList[i]
        subject == decodeHeader(m.subject)
        cc == ccAddresses(m)
        eb == Extracted[i]
        body == IF eb[3] # Nil THEN PlaceholderBody ELSE eb[1]
        isHTML == IF eb[3] # Nil THEN FALSE ELSE eb[2]
    IN  IF Len(cc) > 0
        THEN <<[fn |-> "SendMailWithMultipleRecipients", to |-> s.to, cc |-> cc,
                subject |-> subject, body |-> body, isHTML |-> isHTML]>>
        ELSE IF Len(s.to) = 0 THEN <<>>
        ELSE <<[fn |-> "SendMail", to |-> <<s.to[1]>>, cc |-> <<>>,
                subject |-> subject, body |-> body, isHTML |-> isHTML]>>

\* Data that starts the envelope over when it returns an error
DataResetsOnError(c, i, sendOK) ==
    /\ c \in DOMAIN sessions
    /\ LET m == MessageList[i]
           calls == IF m.readOK THEN GraphCalls(sessions[c], i) ELSE <<>>
           e == IF ~m.readOK THEN <<ErrParse, "read message">>
                ELSE IF calls = <<>> THEN <<ErrNoRecipients>>
                ELSE IF ~sendOK THEN <<ErrSend, "graph">>
                ELSE Nil
       IN  /\ reply' = [Reply(c, "Data", e, calls, i)
                           EXCEPT !.arg = IF calls # <<>> THEN <<sendOK>> ELSE <<>>]
           /\ sessions' = IF e = Nil THEN sessions
                          ELSE [sessions EXCEPT ![c].from = "", ![c].to = <<>>]
    /\ UNCHANGED notSmtp

\* Session.Data on the i-th message; sendOK is whether the graph call
\* succeeds
Data(c, i, sendOK) ==
    /\ c \in DOMAIN sessions
    /\ LET m == MessageList[i]
           calls == IF m.readOK THEN GraphCalls(sessions[c], i) ELSE <<>>
           e == IF ~m.readOK THEN <<ErrParse, "read message">>
                ELSE IF calls = <<>> THEN <<ErrNoRecipients>>
                ELSE IF ~sendOK THEN <<ErrSend, "graph">>
                ELSE Nil
       IN  reply' = [Reply(c, "Data", e, calls, i)
                        EXCEPT !.arg = IF calls # <<>> THEN <<sendOK>> ELSE <<>>]
    /\ sessions' = sessions
    /\ UNCHANGED notSmtp

SmtpNext ==
    \/ \E c \in Conns : NewSession(c)
    \/ \E c \in Conns, a \in AuthAttempts : Auth(c, a[1], a[2], a[3])
    \/ \E c \in Conns, a \in Senders : Mail(c, a)
    \/ \E c \in Conns, a \in Addresses : Rcpt(c, a)
    \/ \E c \in Conns : Reset(c)
    \/ \E c \in Conns : Logout(c)
    \/ \E c \in Conns, i \in Messages, sendOK \in BOOLEAN : Data(c, i, sendOK)

-----------------------------------------------------------------------------
(* One evaluation of TokenResponse.IsExpired *)

ExIdle == ex = <<>>

\* what one evaluation of IsExpired leaves alone
notEx == <<authVars, smtpVars, cacheVars, mime>>

\* the records and times IsExpired is evaluated on: a record cached at the
\* zero time or later, read up to MaxAgeSteps * 100 seconds after it was
\* cached (or 100 seconds before, the clock having been set back)
ExInputs ==
    {[cachedAt |-> c, expiresIn |-> e,
      now |-> (IF c = ZeroTime THEN 5000 ELSE c) + 100 * k] :
         c \in {ZeroTime, 1000, 86400}, e \in {-100, 0, 300, 3600},
         k \in -1 .. MaxAgeSteps}

ExInit == ex \in {[in |-> i, out |-> <<>>] : i \in ExInputs}

\* tr.IsExpired() is called when time.Now() is ex.in.now
Evaluate ==
    /\ ex.out = <<>>
    /\ ex' = [ex EXCEPT !.out =
                 <<IsExpired(TokenResponse("tok0", "Bearer", ex.in.expiresIn,
                                           "refresh", "Mail.Send", ex.in.cachedAt),
                             ex.in.now)>>]
    /\ UNCHANGED notEx

ExNext == Evaluate

-----------------------------------------------------------------------------
(* internal/auth/token.go: concurrent callers of one TokenCacheManager.      *)
(* Each method takes tcm.mu, works on the file and releases the lock on       *)
(* return; os.WriteFile truncates the file and then writes it.                *)

\* the goroutines that call the TokenCacheManager
Goroutines == {1, 2, 3}

\* the records handed to SaveToken; CachedAt is whatever the caller left
CacheRecords ==
    {TokenResponse("tok1", "Bearer", 200, "refresh", "Mail.Send", ZeroTime),
     TokenResponse("tok1", "Bearer", 300, "refresh", "Mail.Send", ZeroTime),
     TokenResponse("tok2", "Bearer", 600, "refresh2", "Mail.Send offline_access", 700),
     TokenResponse("tok[FF]", "Bearer", 600, "refresh", "Mail.Send", ZeroTime)}

\* the cache files the callers can find at the start
CacheFiles ==
    {FileMissing,
     Marshal(TokenResponse("tok0", "Bearer", 600, "refresh", "Mail.Send", 1000))}

NoCall == [op |-> "none", pc |-> "idle", arg |-> Nil, data |-> Nil, res |-> <<>>,
           obs |-> <<>>]

\* sync.RWMutex: w is the goroutine that holds rw.w and has announced itself
\* to the readers (0 when none), active the goroutines that hold the read lock,
\* waiting the goroutines blocked in RLock
MuInit == [w |-> 0, active |-> {}, waiting |-> {}]

\* calls: the calls made so far; saved: the record and time of the last
\* SaveToken that wrote the file, while no SaveToken or ClearCache has touched
\* the file since; cleared: a ClearCache has run and no SaveToken has touched
\* the file since; clearsOK: how many ClearCache in a row have returned nil
\* since then (counted up to 2)
CacheObsInit == [calls |-> 0, saved |-> Nil, cleared |-> FALSE, clearsOK |-> 0]

\* the cache with no caller
CacheIdle ==
    /\ mu = MuInit
    /\ caller = [g \in Goroutines |-> NoCall]
    /\ cacheObs = CacheObsInit

\* what the cache's callers leave alone
notCache == <<clock, ticks, authorityURL, codeVerifier, codeChallenge, server,
              authCode, lsPending, pc, cachedToken, loadErr, code, token, err,
              deadline, ret, hist, smtpVars, ex, mime>>

\* goroutine g calls tcm.LoadToken()
CallLoadToken(g) ==
    /\ caller[g].pc = "idle"
    /\ cacheObs.calls < MaxCacheCalls
    /\ caller' = [caller EXCEPT ![g] = [NoCall EXCEPT !.op = "LoadToken",
                                                       !.pc = "RLock"]]
    /\ cacheObs' = [cacheObs EXCEPT !.calls = @ + 1]
    /\ UNCHANGED <<notCache, file, mu>>

\* goroutine g calls tcm.SaveToken(tr)
CallSaveToken(g, tr) ==
    /\ caller[g].pc = "idle"
    /\ cacheObs.calls < MaxCacheCalls
    /\ caller' = [caller EXCEPT ![g] = [NoCall EXCEPT !.op = "SaveToken",
                                                       !.pc = "Lock",
                                                       !.arg = <<tr>>]]
    /\ cacheObs' = [cacheObs EXCEPT !.calls = @ + 1]
    /\ UNCHANGED <<notCache, file, mu>>

\* goroutine g calls tcm.ClearCache()
CallClearCache(g) ==
    /\ caller[g].pc = "idle"
    /\ cacheObs.calls < MaxCacheCalls
    /\ caller' = [caller EXCEPT ![g] = [NoCall EXCEPT !.op = "ClearCache",
                                                       !.pc = "Lock"]]
    /\ cacheObs' = [cacheObs EXCEPT !.calls = @ + 1]
    /\ UNCHANGED <<notCache, file, mu>>

\* RWMutex.RLock returns at once unless a writer holds or awaits the lock
ReaderAdmitted(m) == m.w = 0

\* tcm.mu.RLock(): the reader is admitted or blocks until the writer unlocks
RLock(g) ==
    /\ caller[g].pc = "RLock"
    /\ IF ReaderAdmitted(mu)
       THEN /\ mu' = [mu EXCEPT !.active = @ \cup {g}]
            /\ caller' = [caller EXCEPT ![g].pc = "ReadFile"]
       ELSE /\ mu' = [mu EXCEPT !.waiting = @ \cup {g}]
            /\ caller' = [caller EXCEPT ![g].pc = "RLock blocked"]
    /\ UNCHANGED <<notCache, file, cacheObs>>

\* LoadToken under the read lock: os.ReadFile, json.Unmarshal, IsExpired
ReadFile(g) ==
    /\ caller[g].pc = "ReadFile"
    /\ caller' = [caller EXCEPT
                     ![g].res = LoadToken(file, clock),
                     ![g].obs = [at |-> clock,
                                 saved |-> cacheObs.saved,
                                 cleared |-> cacheObs.cleared,
                                 clearsOK |-> cacheObs.clearsOK],
                     ![g].pc = "RUnlock"]
    /\ UNCHANGED <<notCache, file, mu, cacheObs>>

\* the deferred tcm.mu.RUnlock(), and LoadToken returns
RUnlock(g) ==
    /\ caller[g].pc = "RUnlock"
    /\ mu' = [mu EXCEPT !.active = @ \ {g}]
    /\ caller' = [caller EXCEPT ![g] = NoCall]
    /\ UNCHANGED <<notCache, file, cacheObs>>

\* tcm.mu.Lock(), first half: rw.w is taken and the readers are told
Lock(g) ==
    /\ caller[g].pc = "Lock"
    /\ mu.w = 0
    /\ mu' = [mu EXCEPT !.w = g]
    /\ caller' = [caller EXCEPT ![g].pc = "Lock wait"]
    /\ UNCHANGED <<notCache, file, cacheObs>>

\* Lock that does not wait for the readers to leave
WriterAdmittedAlways(m) == TRUE

\* RWMutex.Lock returns when the readers that held the lock have left
WriterAdmitted(m) == m.active = {}

\* tcm.mu.Lock(), second half: the wait for the active readers
LockAcquired(g) ==
    /\ caller[g].pc = "Lock wait"
    /\ WriterAdmitted(mu)
    /\ caller' = [caller EXCEPT ![g].pc = IF caller[g].op = "SaveToken"
                                          THEN "WriteFile" ELSE "Remove"]
    /\ UNCHANGED <<notCache, file, mu, cacheObs>>

\* SaveToken under the write lock: token.CachedAt = time.Now(),
\* json.MarshalIndent, and os.WriteFile opens the file with O_TRUNC (it may
\* fail to: the file is then as it was)
WriteFile(g) ==
    /\ caller[g].pc = "WriteFile"
    /\ LET s == SaveToken(caller[g].arg[1], file, clock, TRUE)
       IN  \E opened \in BOOLEAN :
              /\ file' = IF opened THEN FileGarbage ELSE file
              /\ caller' = [caller EXCEPT
                               ![g].data = <<s[1]>>,
                               ![g].obs = [at |-> clock],
                               ![g].res = IF opened THEN <<>>
                                          ELSE SaveToken(caller[g].arg[1], file,
                                                         clock, FALSE)[3],
                               ![g].pc = IF opened THEN "Write" ELSE "Unlock"]
    /\ cacheObs' = [cacheObs EXCEPT !.saved = Nil, !.cleared = FALSE,
                                    !.clearsOK = 0]
    /\ UNCHANGED <<notCache, mu>>

\* os.WriteFile writes the bytes and closes the file; when the write fails
\* the file stays cut short
Write(g) ==
    /\ caller[g].pc = "Write"
    /\ \E written \in BOOLEAN :
          /\ file' = IF written THEN Marshal(caller[g].data[1]) ELSE file
          /\ caller' = [caller EXCEPT
                           ![g].res = IF written THEN Nil ELSE <<"write file">>,
                           ![g].pc = "Unlock"]
          /\ cacheObs' = [cacheObs EXCEPT
                             !.saved = IF written
                                       THEN <<[rec |-> caller[g].arg[1],
                                               at |-> caller[g].obs.at]>>
                                       ELSE Nil]
    /\ UNCHANGED <<notCache, mu>>

\* ClearCache under the write lock: os.Remove, whose "not exist" error is
\* not an error
Remove(g) ==
    /\ caller[g].pc = "Remove"
    /\ \E removeOK \in BOOLEAN :
          LET r == ClearCache(file, removeOK)
          IN  /\ file' = r[1]
              /\ caller' = [caller EXCEPT
                               ![g].res = r[2],
                               ![g].obs = [existed |-> file.kind # "missing"],
                               ![g].pc = "Unlock"]
              /\ cacheObs' = [cacheObs EXCEPT
                                 !.saved = Nil, !.cleared = TRUE,
                                 !.clearsOK = IF r[2] # Nil THEN 0
                                              ELSE IF @ = 0 THEN 1 ELSE 2]
    /\ UNCHANGED <<notCache, mu>>

\* the deferred tcm.mu.Unlock(): the readers blocked in RLock get the lock,
\* rw.w is released, and SaveToken or ClearCache returns
Unlock(g) ==
    /\ caller[g].pc = "Unlock"
    /\ mu' = [w |-> 0, active |-> mu.active \cup mu.waiting, waiting |-> {}]
    /\ caller' = [h \in Goroutines |->
                     IF h = g THEN NoCall
                     ELSE IF h \in mu.waiting
                          THEN [caller[h] EXCEPT !.pc = "ReadFile"]
                     ELSE caller[h]]
    /\ UNCHANGED <<notCache, file, cacheObs>>

CacheNext ==
    \/ Tick
    \/ \E g \in Goroutines : CallLoadToken(g)
    \/ \E g \in Goroutines, tr \in CacheRecords : CallSaveToken(g, tr)
    \/ \E g \in Goroutines : CallClearCache(g)
    \/ \E g \in Goroutines : RLock(g)
    \/ \E g \in Goroutines : ReadFile(g)
    \/ \E g \in Goroutines : RUnlock(g)
    \/ \E g \in Goroutines : Lock(g)
    \/ \E g \in Goroutines : LockAcquired(g)
    \/ \E g \in Goroutines : WriteFile(g)
    \/ \E g \in Goroutines : Write(g)
    \/ \E g \in Goroutines : Remove(g)
    \/ \E g \in Goroutines : Unlock(g)

-----------------------------------------------------------------------------
(* One evaluation of decodeQuotedPrintable or of extractMultipartBody *)

\* "4", "1", "=", "z" and the line feed
QpBytes == {52, 49, EQ, 122, LF}

\* the texts over QpBytes of length n
RECURSIVE QpTexts(_)
QpTexts(n) ==
    IF n = 0 THEN {<<>>}
    ELSE {Append(t, b) : t \in QpTexts(n - 1), b \in QpBytes}

\* "Caf=C3=A9"
TextCafe == <<67, 97, 102, EQ, 67, 51, EQ, 65, 57>>

\* the texts decodeQuotedPrintable is given
QpInputs ==
    UNION {QpTexts(n) : n \in 0 .. MaxQpLen} \cup {TextCafe, TextCafe \o <<CR, LF>>}

\* "Yo"
TextYo == <<89, 111>>

\* the parts a multipart body is made of
PartChoices ==
    {Part("text/plain; charset=utf-8", "", TextHi, TextHi, TRUE),
     Part("text/plain; charset=utf-8", "", TextYo, TextYo, TRUE),
     Part("text/plain; charset=utf-8", "", <<>>, <<>>, TRUE),
     Part("text/plain; charset=utf-8", "base64", <<83, 71, 107, 61>>, <<>>, TRUE),
     Part("text/plain; charset=utf-8", "quoted-printable", TextCafe,
          <<67, 97, 102, 195, 169>>, TRUE),
     Part("text/plain; charset=utf-8", "", TextHi, TextHi, FALSE),
     Part("TEXT/HTML", "", TextB, TextB, TRUE),
     Part("TEXT/HTML", "", <<>>, <<>>, TRUE),
     Part("image/png", "base64", <<83, 71, 107, 61>>, <<>>, TRUE),
     Part("multipart/alternative; boundary=c", "", TextHi, TextHi, TRUE)}

\* the sequences of n parts
RECURSIVE PartLists(_)
PartLists(n) ==
    IF n = 0 THEN {<<>>}
    ELSE {Append(l, q) : l \in PartLists(n - 1), q \in PartChoices}

\* the multipart bodies extractMultipartBody is given: the parts up to the
\* closing boundary, or up to where the body is cut short
MultipartInputs ==
    {[parts |-> l, partsErr |-> e] :
         l \in UNION {PartLists(n) : n \in 0 .. MaxParts}, e \in BOOLEAN}

MimeIdle == mime = <<>>

MimeInit ==
    mime \in {[fn |-> "decodeQuotedPrintable", in |-> t, out |-> <<>>] :
                  t \in QpInputs}
             \cup {[fn |-> "extractMultipartBody", in |-> m, out |-> <<>>] :
                       m \in MultipartInputs}

\* what one evaluation leaves alone
notMime == <<authVars, smtpVars, ex, cacheVars>>

\* decodeQuotedPrintable(mime.in) is called
DecodeQP ==
    /\ mime.fn = "decodeQuotedPrintable"
    /\ mime.out = <<>>
    /\ mime' = [mime EXCEPT !.out = <<decodeQuotedPrintable(mime.in)>>]
    /\ UNCHANGED notMime

\* extractMultipartBody is called on the body mime.in
ExtractMultipart ==
    /\ mime.fn = "extractMultipartBody"
    /\ mime.out = <<>>
    /\ mime' = [mime EXCEPT !.out = <<extractMultipartBody(mime.in)>>]
    /\ UNCHANGED notMime

MimeNext ==
    \/ DecodeQP
    \/ ExtractMultipart

-----------------------------------------------------------------------------
(* Specifications *)

\* the Authenticator before any call, with an absent cache file
AuthIdle ==
    /\ AuthInit
    /\ file = FileMissing
    /\ authorityURL = "https://login.example/common"

\* the Authenticator and its token cache
Init ==
    /\ AuthInit
    /\ SmtpIdle
    /\ ExIdle
    /\ CacheIdle
    /\ MimeIdle

Next == AuthNext

Spec == Init /\ [][Next]_vars

\* the steps of the goroutine that runs GetAccessToken, once it is called
CallerStep ==
    \/ CheckCached
    \/ generatePKCE
    \/ buildAuthorizationURL
    \/ startCallbackServer
    \/ ReceiveCode
    \/ Timeout
    \/ ExchangeCodeForToken
    \/ stopCallbackServer
    \/ Finish

\* the Authenticator under the Go scheduler: a goroutine that can run does
\* run (the caller inside GetAccessToken, the goroutine of ListenAndServe) and
\* time passes; neither a further call of GetAccessToken nor the arrival of
\* a callback request is promised
SpecLive ==
    /\ Init
    /\ [][Next]_vars
    /\ WF_vars(CallerStep)
    /\ WF_vars(ListenAndServe)
    /\ WF_vars(Tick)

\* the SMTP sessions
SmtpInit ==
    /\ AuthIdle
    /\ SmtpIdle
    /\ ExIdle
    /\ CacheIdle
    /\ MimeIdle

SpecSmtp == SmtpInit /\ [][SmtpNext]_vars

\* TokenResponse.IsExpired as a function of the record and the time
ExpiryInit ==
    /\ AuthIdle
    /\ SmtpIdle
    /\ ExInit
    /\ CacheIdle
    /\ MimeIdle

SpecExpiry == ExpiryInit /\ [][ExNext]_vars

\* the TokenCacheManager with concurrent callers
CacheInit ==
    /\ AuthInit
    /\ file \in CacheFiles
    /\ authorityURL = "https://login.example/common"
    /\ SmtpIdle
    /\ ExIdle
    /\ CacheIdle
    /\ MimeIdle

SpecCache == CacheInit /\ [][CacheNext]_vars

\* decodeQuotedPrintable and extractMultipartBody as functions of their input
MimeSpecInit ==
    /\ AuthIdle
    /\ SmtpIdle
    /\ ExIdle
    /\ CacheIdle
    /\ MimeInit

SpecMime == MimeSpecInit /\ [][MimeNext]_vars

-----------------------------------------------------------------------------
(* Properties of GetAccessToken (specification Spec) *)

\* the call in progress has run acquireNewToken
Acquiring == hist.attempt > hist.entry.attempt

\* the cache file at the entry of the call holds a record that is not
\* expired at time now: cached_at is set and now + 300 is not after
\* cached_at + expires_in
HeldFresh(now) ==
    /\ hist.entry.file.kind = "json"
    /\ hist.entry.file.cached_at # 0
    /\ now + 300 <= hist.entry.file.cached_at + hist.entry.file.expires_in

\* C1: when GetAccessToken has returned and the cache file it found held a
\* record that is still not expired, it returned that record's access token
\* with a nil error, and the call generated no PKCE pair, started no callback
\* server, made no token exchange and left the cache file as it was.
C1_CachedTokenReturned ==
    (pc = "done" /\ HeldFresh(clock)) =>
        /\ ret = [token |-> hist.entry.file.access_token, err |-> Nil,
                  set |-> TRUE]
        /\ hist.pkce = hist.entry.pkce
        /\ hist.started = hist.entry.started
        /\ hist.exchanges = hist.entry.exchanges
        /\ hist.saves = hist.entry.saves
        /\ file = hist.entry.file

\* a second call returns, from the cache, the token the first call acquired
C1_Witness ==
    /\ pc = "done"
    /\ HeldFresh(clock)
    /\ hist.calls = 2
    /\ hist.attempt = 1
    /\ ret.token = "tok2"

\* C4: outside an acquisition attempt (before generatePKCE, and from the
\* return of acquireNewToken on) the callback server is not listening and
\* cannot start to: it was never created or has been shut down.  This holds
\* for every outcome of the attempt.
C4_ListenerStopped ==
    (pc \in {"idle", "loaded", "acquire", "pkce", "acquired", "done"}) =>
        server \in {"nil", "closed"}

\* an attempt whose server listened has timed out, with a handler still
\* blocked on the channel, and acquireNewToken has returned
C4_Witness ==
    /\ pc = "acquired"
    /\ hist.outcome = "timeout"
    /\ hist.listened
    /\ authCode # {}
    /\ server = "closed"

\* C5 as claimed: when the call's attempt saw a redirect carrying an error
\* and consumed no code, GetAccessToken returns an error that is not the
\* timeout error.
C5_RedirectErrorReported ==
    (pc = "done" /\ Acquiring /\ hist.redirectErrors > 0 /\ hist.codeFrom = 0) =>
        /\ ret.err # Nil
        /\ ret.err # <<ErrAcquire, ErrTimeout>>

\* C6 as claimed: when the attempt's server failed to bind and never
\* listened (and no code was consumed), GetAccessToken returns the error of
\* the callback server's start, not the timeout error.
C6_BindFailureReported ==
    (pc = "done" /\ Acquiring /\ hist.bindFailed /\ ~hist.listened
         /\ hist.codeFrom = 0 /\ hist.outcome # "url error") =>
        /\ Len(ret.err) >= 2
        /\ ret.err[2] = ErrServerStart

\* C7: once the select has taken the timeout case, acquireNewToken only
\* stops the server and returns: the attempt's outcome stays "timed out", its
\* error is the timeout error, the call has made no token exchange and has not
\* written the cache, and GetAccessToken returns that error wrapped, with an
\* empty token.
C7_TimeoutOutcome ==
    hist.timedOut =>
        /\ pc \in {"stopping", "acquired", "done"}
        /\ hist.outcome = "timeout"
        /\ err = <<ErrTimeout>>
        /\ hist.exchanges = hist.entry.exchanges
        /\ hist.saves = hist.entry.saves
        /\ file = hist.entry.file
        /\ pc = "done" =>
               ret = [token |-> "", err |-> <<ErrAcquire, ErrTimeout>>,
                      set |-> TRUE]

\* GetAccessToken has returned after the timeout of an attempt whose server
\* listened
C7_Witness ==
    /\ pc = "done"
    /\ hist.outcome = "timeout"
    /\ hist.listened
    /\ ret.err = <<ErrAcquire, ErrTimeout>>

\* C8: when LoadToken returned an error, GetAccessToken has, by the time it
\* returns, run acquireNewToken exactly once; it returns the acquired token
\* with a nil error or the attempt's error wrapped, and LoadToken's error is
\* no part of what it returns.
C8_LoadErrorReacquires ==
    (pc = "done" /\ loadErr # Nil) =>
        /\ hist.attempt = hist.entry.attempt + 1
        /\ err # Nil => ret = [token |-> "", err |-> Wrap(ErrAcquire, err),
                               set |-> TRUE]
        /\ err = Nil => /\ ret.err = Nil
                        /\ ret.token = token[1].AccessToken
        /\ \A i \in DOMAIN ret.err : ret.err[i] # loadErr[1]

\* a call that found an expired record has acquired a new token
C8_Witness ==
    /\ pc = "done"
    /\ loadErr = <<"token expired">>
    /\ ret.err = Nil
    /\ ret.token = "tok1"

\* C9: when SaveToken failed in a call, GetAccessToken returns the token
\* the exchange of that call produced, with a nil error.
C9_SaveFailureIgnored ==
    (pc = "done" /\ hist.saveFailed) =>
        /\ ret.err = Nil
        /\ ret.set
        /\ hist.outcome = "exchanged"
        /\ ret.token = token[1].AccessToken
        /\ ret.token \in {"tok1", "tok2"}
        /\ file = hist.entry.file

\* SaveToken failed over a cache file holding an older record
C9_Witness ==
    /\ pc = "done"
    /\ hist.saveFailed
    /\ file.kind = "json"
    /\ ret.token = "tok2"

\* C24 as claimed: whenever the call in progress has printed the
\* authorization URL of its acquisition attempt, it has started that
\* attempt's callback server.
C24_ListenerStartedBeforeUrl ==
    (Acquiring /\ hist.urlShown) => hist.started > hist.entry.started

\* C25: an acquisition attempt receives at most one code from the channel and
\* makes at most one token exchange, and an exchange it makes is made with
\* the one code it received; the codes of the other callbacks are left with
\* their handlers.
C25_OneCodePerAttempt ==
    /\ hist.received <= 1
    /\ hist.exchanges - hist.entry.exchanges <= 1
    /\ (Acquiring /\ hist.exchanges > hist.entry.exchanges) =>
          /\ hist.received = 1
          /\ hist.used = code

\* two callbacks of the attempt carried a code: codeA was received and
\* exchanged, the handler of codeB is still at the channel
C25_Witness ==
    /\ Acquiring
    /\ hist.received = 1
    /\ hist.codeFrom = hist.attempt
    /\ hist.exchanges = hist.entry.exchanges + 1
    /\ hist.used = "codeA"
    /\ \E h \in authCode : h.code = "codeB" /\ h.srv = hist.attempt

\* C26 as claimed: once acquireNewToken has returned in the call in progress
\* (with a token, an exchange error or the timeout error), the Authenticator
\* holds no codeVerifier and no codeChallenge.
C26_PkceDiscardedAfterAttempt ==
    (/\ Acquiring
     /\ pc \in {"acquired", "done"}
     /\ hist.outcome \in {"exchanged", "exchange failed", "timeout"}) =>
        /\ codeVerifier = Nil
        /\ codeChallenge = Nil

\* C28 as claimed: the code an acquisition attempt receives from the channel
\* was given to the channel by a handler of the callback server that this
\* same attempt started, never by a handler left blocked by an earlier attempt.
C28_CodeFromSameAttempt ==
    hist.codeFrom # 0 => hist.codeFrom = hist.attempt

\* the handler of the i-th callback request is blocked in its channel send
Blocked(i) == \E h \in authCode : h.id = i

\* C29 as claimed: every handler that blocks in its channel send is
\* eventually released (it then writes its response and returns).
C29_EveryHandlerCompletes ==
    \A i \in 1 .. MaxCallbacks : Blocked(i) ~> ~Blocked(i)

-----------------------------------------------------------------------------
(* Properties of the SMTP session (specification SpecSmtp) *)

\* C2 as claimed: Data calls the graph client only on a session whose
\* authenticated flag is true.
C2_SendOnlyIfAuthenticated ==
    (reply.cmd = "Data" /\ reply.calls # <<>>) => reply.before.authenticated

\* C3 as claimed: Data on a session with an empty recipient list returns an
\* error and calls neither SendMail nor SendMailWithMultipleRecipients.
C3_NoRecipientsNoSend ==
    (reply.cmd = "Data" /\ reply.before.to = <<>>) =>
        /\ reply.err # Nil
        /\ reply.calls = <<>>

\* the command reply reports was a PLAIN exchange with the configured
\* username and password
MatchingPlain ==
    reply.arg = <<"PLAIN", backendUsername, backendPassword>>

\* C14: in every step, a session's authenticated flag goes from false to true
\* only in an Auth on that same session that is a PLAIN exchange with the
\* configured username and password and returns nil; an Auth that is not
\* such an exchange returns an error and changes no session, and no Auth
\* changes another session.
C14_AuthOnlyByMatchingPlain ==
    [][ /\ \A c \in Conns :
              (/\ c \in DOMAIN sessions'
               /\ sessions'[c].authenticated
               /\ ~(c \in DOMAIN sessions /\ sessions[c].authenticated)) =>
                  /\ reply'.cmd = "Auth"
                  /\ reply'.conn = c
                  /\ MatchingPlain'
                  /\ reply'.err = Nil
        /\ (reply'.cmd = "Auth" /\ ~MatchingPlain') =>
              /\ reply'.err # Nil
              /\ sessions' = sessions
        /\ reply'.cmd = "Auth" =>
              \A d \in DOMAIN sessions \ {reply'.conn} : sessions'[d] = sessions[d]
      ]_vars

\* a mismatching PLAIN attempt has failed on connection 1, whose flag stays
\* false, while connection 2 is authenticated
C14_Witness ==
    /\ reply.cmd = "Auth"
    /\ reply.conn = 1
    /\ reply.arg = <<"PLAIN", backendUsername, "guess">>
    /\ reply.err = <<ErrInvalidCredentials>>
    /\ DOMAIN sessions = {1, 2}
    /\ ~sessions[1].authenticated
    /\ sessions[2].authenticated

\* the addresses of the Cc header of the i-th message of MessageList, none
\* when it has no Cc header or one that does not parse
ExpectedCc(i) ==
    IF i \in {3, 7} THEN <<"c@x">>
    ELSE IF i = 4 THEN <<"c@x", "d@x">>
    ELSE <<>>

\* the session's recipient list is the list of the addresses declared by
\* Rcpt since the last Reset: Rcpt appends its address, Reset empties the
\* list, no other command changes it
RecipientsAsDeclared ==
    /\ reply.cmd = "Rcpt" =>
          sessions[reply.conn].to = Append(reply.before.to, reply.arg[1])
    /\ reply.cmd = "Reset" => sessions[reply.conn].to = <<>>
    /\ reply.cmd \in {"Auth", "Mail", "Data"} =>
          sessions[reply.conn].to = reply.before.to

\* C15: the recipient list is as declared (in order, duplicates kept), and a
\* Data whose message has a non-empty parsed Cc list makes exactly one graph
\* call, SendMailWithMultipleRecipients, with the whole recipient list as TO
\* and the parsed Cc addresses as CC.
C15_CcUsesMultiSend ==
    /\ RecipientsAsDeclared
    /\ (reply.cmd = "Data" /\ MessageList[reply.msg].readOK
           /\ ExpectedCc(reply.msg) # <<>>) =>
          /\ Len(reply.calls) = 1
          /\ reply.calls[1].fn = "SendMailWithMultipleRecipients"
          /\ reply.calls[1].to = reply.before.to
          /\ reply.calls[1].cc = ExpectedCc(reply.msg)

\* one Cc address and the same recipient declared twice
C15_Witness ==
    /\ reply.cmd = "Data"
    /\ reply.msg = 3
    /\ reply.before.to = <<"b@x", "b@x">>
    /\ reply.calls[1].to = <<"b@x", "b@x">>
    /\ reply.calls[1].cc = <<"c@x">>
    /\ reply.err = Nil

\* C16: a Data whose message has no Cc address, on a session with at least
\* one recipient, makes exactly one graph call, SendMail, with the first
\* declared recipient alone.
C16_NoCcUsesFirstRecipient ==
    (reply.cmd = "Data" /\ MessageList[reply.msg].readOK
        /\ ExpectedCc(reply.msg) = <<>> /\ Len(reply.before.to) >= 1) =>
       /\ Len(reply.calls) = 1
       /\ reply.calls[1].fn = "SendMail"
       /\ reply.calls[1].to = <<reply.before.to[1]>>
       /\ reply.calls[1].cc = <<>>

\* two different recipients, no Cc: the second is in no call
C16_Witness ==
    /\ reply.cmd = "Data"
    /\ reply.msg = 2
    /\ reply.before.to = <<"a@x", "b@x">>
    /\ reply.calls[1].to = <<"a@x">>
    /\ reply.err = Nil

\* C17: a Data whose message fails body extraction, on a session with at
\* least one recipient, makes its graph call with the placeholder body and
\* isHTML = false, and returns nil when the call succeeds and the call's
\* error (wrapped) when it fails.
C17_ExtractionFailureStillSends ==
    (reply.cmd = "Data" /\ MessageList[reply.msg].readOK
        /\ Extracted[reply.msg][3] # Nil /\ Len(reply.before.to) >= 1) =>
       /\ Len(reply.calls) = 1
       /\ reply.calls[1].body = PlaceholderBody
       /\ reply.calls[1].isHTML = FALSE
       /\ reply.arg = <<TRUE>> => reply.err = Nil
       /\ reply.arg = <<FALSE>> => reply.err = <<ErrSend, "graph">>
       /\ reply.arg \in {<<TRUE>>, <<FALSE>>}

\* a multipart message cut short after its plain part was sent with the
\* placeholder through the multi-recipient call
C17_Witness ==
    /\ reply.cmd = "Data"
    /\ reply.msg = 7
    /\ Len(reply.before.to) = 1
    /\ reply.calls[1].fn = "SendMailWithMultipleRecipients"
    /\ reply.calls[1].body = PlaceholderBody
    /\ reply.err = Nil

\* C22: after a Reset the session's sender and recipient list are empty, its
\* authenticated flag has the value it had before, and the session is still
\* there and accepts Mail, Rcpt and Data.
C22_ResetClearsEnvelopeOnly ==
    reply.cmd = "Reset" =>
        /\ reply.conn \in DOMAIN sessions
        /\ sessions[reply.conn].from = ""
        /\ sessions[reply.conn].to = <<>>
        /\ sessions[reply.conn].authenticated = reply.before.authenticated
        /\ ENABLED Mail(reply.conn, "s@x")
        /\ ENABLED Rcpt(reply.conn, "a@x")
        /\ ENABLED Data(reply.conn, 1, TRUE)

\* an authenticated session with a sender and two recipients was reset
C22_Witness ==
    /\ reply.cmd = "Reset"
    /\ reply.before.from = "s@x"
    /\ reply.before.to = <<"a@x", "b@x">>
    /\ reply.before.authenticated
    /\ sessions[reply.conn] = [from |-> "", to |-> <<>>, authenticated |-> TRUE]

\* C23: the graph calls of a Data are those the same message gives on the
\* same session with any other declared sender, and those it gives on any
\* other session with the same recipient list, whatever that session's sender.
C23_SenderDoesNotInfluenceCalls ==
    (reply.cmd = "Data" /\ MessageList[reply.msg].readOK) =>
        /\ \A f \in {"", "s@x", "t@x"} :
              GraphCalls([reply.before EXCEPT !.from = f], reply.msg) = reply.calls
        /\ \A d \in DOMAIN sessions :
              sessions[d].to = reply.before.to =>
                  GraphCalls(sessions[d], reply.msg) = reply.calls

\* two sessions that differ only in their sender, one of which has sent a
\* message
C23_Witness ==
    /\ reply.cmd = "Data"
    /\ reply.msg = 2
    /\ reply.conn = 1
    /\ reply.calls # <<>>
    /\ DOMAIN sessions = {1, 2}
    /\ sessions[1].from = "s@x"
    /\ sessions[2] = [sessions[1] EXCEPT !.from = ""]

\* C27: after an Auth that returned the unsupported-mechanism or the
\* invalid-credentials error, or a Data that returned the no-recipients
\* error, the session (sender, recipient list, authenticated flag) is what it
\* was before the command, so that later commands find the state they would
\* have found without it.
C27_FailedCommandChangesNothing ==
    (\/ /\ reply.cmd = "Auth"
        /\ reply.err \in {<<ErrUnsupportedMech>>, <<ErrInvalidCredentials>>}
     \/ /\ reply.cmd = "Data"
        /\ reply.err = <<ErrNoRecipients>>) =>
        /\ reply.conn \in DOMAIN sessions
        /\ sessions[reply.conn] = reply.before

\* a wrong password was refused on an authenticated session that has a sender
\* and a recipient
C27_Witness ==
    /\ reply.cmd = "Auth"
    /\ reply.err = <<ErrInvalidCredentials>>
    /\ reply.before = [from |-> "s@x", to |-> <<"a@x">>, authenticated |-> TRUE]
    /\ sessions[reply.conn] = reply.before

-----------------------------------------------------------------------------
(* Properties of IsExpired (specification SpecExpiry) *)

\* C10 as claimed: IsExpired is true exactly when cachedAt is zero or
\* now + 300 >= cachedAt + expiresIn.
C10_ExpiredAtOrAfter ==
    ex.out # <<>> =>
        (ex.out[1] <=> (\/ ex.in.cachedAt = 0
                        \/ ex.in.now + 300 >= ex.in.cachedAt + ex.in.expiresIn))

\* C10 amended: IsExpired is true exactly when cachedAt is zero or
\* now + 300 > cachedAt + expiresIn; with expiresIn = 3600 a record cached
\* 3000 s ago is not expired, one cached 3400 s ago is, and one cached
\* exactly 3300 s ago is not.
C10_ExpiredAfter ==
    ex.out # <<>> =>
        /\ ex.out[1] <=> (\/ ex.in.cachedAt = 0
                          \/ ex.in.now + 300 > ex.in.cachedAt + ex.in.expiresIn)
        /\ (ex.in.cachedAt # 0 /\ ex.in.expiresIn = 3600) =>
               /\ ex.in.now - ex.in.cachedAt = 3000 => ~ex.out[1]
               /\ ex.in.now - ex.in.cachedAt = 3400 => ex.out[1]
               /\ ex.in.now - ex.in.cachedAt = 3300 => ~ex.out[1]

\* IsExpired has answered for a record read exactly 300 s before it lapses
C10_Witness ==
    /\ ex.out = <<FALSE>>
    /\ ex.in.cachedAt # 0
    /\ ex.in.expiresIn = 3600
    /\ ex.in.now + 300 = ex.in.cachedAt + ex.in.expiresIn

-----------------------------------------------------------------------------
(* Properties of the TokenCacheManager (specification SpecCache) *)

\* goroutine g is in LoadToken, has read the file and is about to return
Loaded(g) == caller[g].op = "LoadToken" /\ caller[g].pc = "RUnlock"

\* goroutine g is in ClearCache, has called os.Remove and is about to return
Cleared(g) == caller[g].op = "ClearCache" /\ caller[g].pc = "Unlock"

\* C11 as claimed: a LoadToken that reads the file a SaveToken wrote, no
\* SaveToken or ClearCache having touched the file in between, succeeds and
\* returns a record with the saved accessToken, refreshToken and scope and a
\* non-zero cachedAt.
C11_SaveThenLoadRoundTrips ==
    \A g \in Goroutines :
        (Loaded(g) /\ caller[g].obs.saved # Nil) =>
            LET sv == caller[g].obs.saved[1]
                r == caller[g].res
            IN  /\ r[2] = Nil
                /\ r[1] # Nil
                /\ r[1][1].AccessToken = sv.rec.AccessToken
                /\ r[1][1].RefreshToken = sv.rec.RefreshToken
                /\ r[1][1].Scope = sv.rec.Scope
                /\ r[1][1].CachedAt # ZeroTime

\* C11 amended: such a LoadToken, run at time t' on the file a SaveToken that
\* returned nil stamped at time t, succeeds exactly when t' + 300 is not after
\* t + expiresIn; when it succeeds the record it returns has the saved
\* refreshToken, scope, tokenType and expiresIn, the saved accessToken when
\* that is valid UTF-8 (U+FFFD stands for each invalid byte otherwise), and
\* cachedAt = t, which is not zero, whatever cachedAt the caller had set.
C11_RoundTripUnlessExpired ==
    \A g \in Goroutines :
        (Loaded(g) /\ caller[g].obs.saved # Nil) =>
            LET sv == caller[g].obs.saved[1]
                r == caller[g].res
            IN  /\ r[2] = Nil <=> caller[g].obs.at + 300 <= sv.at + sv.rec.ExpiresIn
                /\ r[2] # Nil => r[1] = Nil
                /\ r[2] = Nil =>
                       /\ r[1] # Nil
                       /\ sv.rec.AccessToken # "tok[FF]" =>
                              r[1][1].AccessToken = sv.rec.AccessToken
                       /\ sv.rec.AccessToken = "tok[FF]" =>
                              r[1][1].AccessToken = "tok[U+FFFD]"
                       /\ r[1][1].RefreshToken = sv.rec.RefreshToken
                       /\ r[1][1].Scope = sv.rec.Scope
                       /\ r[1][1].TokenType = sv.rec.TokenType
                       /\ r[1][1].ExpiresIn = sv.rec.ExpiresIn
                       /\ r[1][1].CachedAt = sv.at
                       /\ r[1][1].CachedAt # ZeroTime

\* a LoadToken has returned, 300 s after it was saved, the record a caller
\* saved with a cachedAt of its own
C11_Witness ==
    \E g \in Goroutines :
        /\ Loaded(g)
        /\ caller[g].obs.saved # Nil
        /\ caller[g].res[2] = Nil
        /\ caller[g].obs.saved[1].rec.CachedAt = 700
        /\ caller[g].res[1][1].CachedAt = caller[g].obs.at - 300

\* C12 as claimed: every ClearCache returns nil, and every LoadToken that
\* reads the file after a ClearCache, no SaveToken having touched the file
\* in between, returns an error.
C12_ClearThenLoadFails ==
    \A g \in Goroutines :
        /\ Cleared(g) => caller[g].res = Nil
        /\ (Loaded(g) /\ caller[g].obs.cleared) => caller[g].res[2] # Nil

\* C12 amended: ClearCache returns nil when the file is absent, and when it
\* returns nil the file is absent afterwards; it returns os.Remove's error,
\* the file being left as it was, only when an existing file could not be
\* removed; every LoadToken that reads the file after a ClearCache that
\* returned nil, no SaveToken having touched the file in between, returns an
\* error and no record.
C12_ClearRemovesThenLoadFails ==
    \A g \in Goroutines :
        /\ Cleared(g) =>
               /\ ~caller[g].obs.existed => caller[g].res = Nil
               /\ caller[g].res = Nil => file = FileMissing
               /\ caller[g].res # Nil =>
                      caller[g].obs.existed /\ file # FileMissing
        /\ (Loaded(g) /\ caller[g].obs.clearsOK > 0) =>
               /\ caller[g].res[2] # Nil
               /\ caller[g].res[1] = Nil

\* a LoadToken has failed after two ClearCache in a row returned nil
C12_Witness ==
    \E g \in Goroutines :
        /\ Loaded(g)
        /\ caller[g].obs.clearsOK = 2
        /\ caller[g].res[2] # Nil
        /\ cacheObs.calls = 3

\* goroutine g holds tcm.mu and is at its file access
Reading(g) == caller[g].pc = "ReadFile"

Writing(g) == caller[g].pc \in {"WriteFile", "Write", "Remove"}

\* C13: while a SaveToken or ClearCache is at its file access under the
\* lock, no other call is at its file access; the lock's own state agrees
\* (a writer at the file holds rw.w and no reader holds the read lock).
C13_WriterExcludesAll ==
    \A g \in Goroutines :
        Writing(g) =>
            /\ \A h \in Goroutines \ {g} : ~Reading(h) /\ ~Writing(h)
            /\ mu.w = g
            /\ mu.active = {}

\* two LoadToken calls are at the file at once while a writer waits for them
C13_Witness ==
    \E g, h, k \in Goroutines :
        /\ g # h
        /\ Reading(g) /\ Reading(h)
        /\ caller[k].pc = "Lock wait"
        /\ mu.active = {g, h}

-----------------------------------------------------------------------------
(* Properties of the MIME extractor (specification SpecMime) *)

\* extractMultipartBody has returned for a body whose parts were all iterated
Extracted_All ==
    /\ mime.fn = "extractMultipartBody"
    /\ mime.out # <<>>
    /\ ~mime.in.partsErr

\* the positions of the parts of the given media type whose content was read
PartsOfType(type) ==
    {i \in DOMAIN mime.in.parts :
        /\ mime.in.parts[i].readOK
        /\ ParseMediaType(mime.in.parts[i].contentType)[1] = type}

\* the decoded content of the i-th part
PartContent(i) ==
    DecodeTransfer(PartEncoding(mime.in.parts[i]), PartBytes(mime.in.parts[i]))

\* the least position of a non-empty set of positions
First(S) == CHOOSE i \in S : \A j \in S : i <= j

\* C18 as claimed: when extraction returns an HTML body, it is the content of
\* the first text/html part; when it returns a plain body, it is the content
\* of the first text/plain part.
C18_FirstPartRetained ==
    (Extracted_All /\ mime.out[1][3] = Nil) =>
        /\ mime.out[1][2] =>
              /\ PartsOfType("text/html") # {}
              /\ mime.out[1][1] = PartContent(First(PartsOfType("text/html")))
        /\ ~mime.out[1][2] =>
              /\ PartsOfType("text/plain") # {}
              /\ mime.out[1][1] = PartContent(First(PartsOfType("text/plain")))

\* C19 as claimed: with a text/html part among the parts the result is the
\* content of a text/html part with isHTML = true, whatever that content;
\* otherwise with a text/plain part it is the content of a text/plain part
\* with isHTML = false; otherwise the no-body-found error.
C19_HtmlThenPlainThenError ==
    Extracted_All =>
        /\ PartsOfType("text/html") # {} =>
              /\ mime.out[1][3] = Nil
              /\ mime.out[1][2]
              /\ \E i \in PartsOfType("text/html") : mime.out[1][1] = PartContent(i)
        /\ (PartsOfType("text/html") = {} /\ PartsOfType("text/plain") # {}) =>
              /\ mime.out[1][3] = Nil
              /\ ~mime.out[1][2]
              /\ \E i \in PartsOfType("text/plain") : mime.out[1][1] = PartContent(i)
        /\ (PartsOfType("text/html") = {} /\ PartsOfType("text/plain") = {}) =>
              mime.out[1][3] = <<ErrNoBody>>

\* every "=" of t is followed by two hexadecimal digits
WellFormedQp(t) ==
    \A i \in DOMAIN t :
        t[i] = EQ => /\ i + 2 <= Len(t)
                     /\ HexVal(t[i + 1]) >= 0
                     /\ HexVal(t[i + 2]) >= 0

\* t from position i on with each =XX escape replaced by its byte
RECURSIVE Unescaped(_, _)
Unescaped(t, i) ==
    IF i > Len(t) THEN <<>>
    ELSE IF t[i] = EQ
         THEN <<16 * HexVal(t[i + 1]) + HexVal(t[i + 2])>> \o Unescaped(t, i + 3)
         ELSE <<t[i]>> \o Unescaped(t, i + 1)

\* C20 as claimed: for an input without line terminator whose "=" all begin
\* an =XX escape, decodeQuotedPrintable returns the input with each escape
\* replaced by its byte and nothing added; "Caf=C3=A9" gives "Caf", C3, A9.
C20_DecodesWithNothingAdded ==
    (/\ mime.fn = "decodeQuotedPrintable"
     /\ mime.out # <<>>
     /\ \A i \in DOMAIN mime.in : mime.in[i] \notin {CR, LF}
     /\ WellFormedQp(mime.in)) =>
        /\ mime.out[1] = Unescaped(mime.in, 1)
        /\ mime.in = TextCafe => mime.out[1] = <<67, 97, 102, 195, 169>>

\* t from position i on, where only a "=" followed by two hexadecimal digits
\* is replaced (by its byte) and every other byte is kept
RECURSIVE OnlyHexEscapesDecoded(_, _)
OnlyHexEscapesDecoded(t, i) ==
    IF i > Len(t) THEN <<>>
    ELSE IF /\ t[i] = EQ
            /\ i + 2 <= Len(t)
            /\ HexVal(t[i + 1]) >= 0
            /\ HexVal(t[i + 2]) >= 0
         THEN <<16 * HexVal(t[i + 1]) + HexVal(t[i + 2])>>
                  \o OnlyHexEscapesDecoded(t, i + 3)
         ELSE <<t[i]>> \o OnlyHexEscapesDecoded(t, i + 1)

\* C21 as claimed: for one line of input (no line terminator, no soft break
\* at its end), the output is the line with each "=" that is followed by two
\* hexadecimal digits replaced by its byte and every other byte unchanged,
\* a "=" not followed by two hexadecimal digits included; the line feed
\* the decoder puts after a line is left out of the comparison.
C21_OnlyHexEscapesDecoded ==
    (/\ mime.fn = "decodeQuotedPrintable"
     /\ mime.out # <<>>
     /\ \A i \in DOMAIN mime.in : mime.in[i] \notin {CR, LF}
     /\ (mime.in = <<>> \/ mime.in[Len(mime.in)] # EQ)) =>
        mime.out[1] \in {OnlyHexEscapesDecoded(mime.in, 1),
                         OnlyHexEscapesDecoded(mime.in, 1) \o <<LF>>}

=============================================================================
